---- MODULE Spec2Model ----
(***************************************************************************)
(* EventHubProducer (aio/_producer_async.py): send, close and              *)
(* _open_with_retry called by concurrent asyncio tasks on one producer,    *)
(* over an abstract transport link (uamqp SendClientAsync).                *)
(*                                                                         *)
(* ConsumerProducerMixin (_client_base_async.py: _check_closed, _open,     *)
(* close, _do_retryable_operation) is not among the sources; it is         *)
(* modelled from sections 4.1, 4.2 and 7 of the specification.             *)
(*                                                                         *)
(* Time is in whole seconds; _msg_timeout is in milliseconds, as in the    *)
(* code.  None is the string "None", except for the numeric timeout and    *)
(* timeout_time, where None is 0 (the code tests them by truthiness).      *)
(*                                                                         *)
(* Each send reads the clock in seconds since the caller called it: the    *)
(* code reads time.time() only to set the deadline of a send and to        *)
(* compare it with that deadline.  The clocks of the sends in progress     *)
(* advance together, while every call in progress is suspended: at the     *)
(* lock that another call holds or reached earlier (the lock serves its    *)
(* waiters in order of arrival), at the opening of the link, at the        *)
(* flush-wait or in a backoff sleep, which runs down as the clocks         *)
(* advance.  The clock of a send that waits for the lock stops at MaxWait  *)
(* (a longer wait counts as MaxWait), and after that at MaxTime, which     *)
(* lies beyond every deadline.                                             *)
(*                                                                         *)
(* Messages are named relative to the send in progress: Cur is the message *)
(* of the latest send that passed validation, Old is any message of an     *)
(* earlier send.  Submissions (one per queue_message) are named likewise:  *)
(* "this" is the latest one, "earlier" any one before it.  The lists       *)
(* _unsent_events and pending_messages are kept as sets: the code reads    *)
(* only whether they are empty and hands them on.                          *)
(*                                                                         *)
(* PartitionContext (aio/_eventprocessor/partition_context.py) is a second *)
(* system, independent of the producer: update_checkpoint and              *)
(* last_enqueued_event_properties called by concurrent tasks on one        *)
(* context, over an abstract checkpoint store.  It has its own             *)
(* specification, SpecContext; each specification leaves the variables of  *)
(* the other system at their initial values.                               *)
(***************************************************************************)
EXTENDS Integers, FiniteSets, Sequences

\* ---------------------------------------------------------------- bounds
\* the longest wait for the lock that the clock of a send counts
MaxWait == 1
\* the timeout a caller may pass to send, in seconds
MaxTimeout == 2
\* self._client._config.max_retries
MaxRetries == 1

\* ------------------------------------------------------------- constants
\* kwargs.get("send_timeout", 60)
SendTimeout == 60
\* seconds to milliseconds, as in _create_handler and _set_msg_timeout
MsPerSecond == 1000
\* first backoff interval and its cap (section 4.2 step 2e)
BackoffBase == 1
BackoffCap == 2

Tasks == {"t1", "t2"}
\* the tasks that call close and _open_with_retry as well as send
Owners == {"t2"}
None == "None"
Free == "free"
Cur == "cur"
Old == "old"

OperationTimeoutError == "OperationTimeoutError"
ConnectionLostError == "ConnectionLostError"
AuthenticationError == "AuthenticationError"
EventDataSendError == "EventDataSendError"
ValueError == "ValueError"
ClientClosedError == "ClientClosedError"
Returned == "returned"

\* errors the transport can raise from open and from the flush-wait
TransportErrors == {ConnectionLostError, AuthenticationError}
\* (outcome, condition) pairs the completion callback can deliver
Outcomes ==
  { <<"Ok", None>>, <<"Timeout", None>>, <<"Error", None>>,
    <<"Error", ConnectionLostError>>, <<"Error", EventDataSendError>> }
\* the arguments of send: <<is_batch, batch partition key, partition_key>>
SendInputs ==
  { <<FALSE, None, None>>, <<TRUE, "A", None>>, <<TRUE, "A", "A">>,
    <<TRUE, "A", "B">>, <<TRUE, "A", "">> }
\* the timeout argument of send (0: not given)
Timeouts == {0, MaxTimeout}
\* the last instant of the clock of a send: beyond every deadline
MaxTime == MaxWait + MaxTimeout

VARIABLES
  running,      \* self.running
  closed,       \* self.closed
  handler,      \* self._handler: "none", "open" or "closed"
  msg_timeout,  \* self._handler._msg_timeout (ms); 0 while there is no handler
  linkQueue,    \* the handler's pending messages
  unsent,       \* self._unsent_events
  outcome,      \* self._outcome
  condition,    \* self._condition
  lock,         \* self._lock: Free or the task holding it
  waiters,      \* the calls at 'async with self._lock', in order of arrival
  awaiting,     \* submissions whose completion callback is still to come
  outcomeFor,   \* the submission whose callback set outcome last, or None
  task          \* per task: the call it runs and where it is

vars == << running, closed, handler, msg_timeout, linkQueue, unsent, outcome,
           condition, lock, waiters, awaiting, outcomeFor, task >>

producer == << running, closed, handler, msg_timeout, linkQueue, unsent,
               outcome, condition, awaiting, outcomeFor >>

VARIABLES
  context,      \* the PartitionContext: its fields
  store,        \* the checkpoint the store holds for the partition, or None
  call          \* per caller of the context: the call it runs and where it is

ctxvars == << context, store, call >>

allvars == << vars, ctxvars >>

\* the tasks that call the PartitionContext
Callers == {"c1", "c2"}

\* a caller that runs no call.  sent is the sequence of records the call has
\* handed to the store, warned the number of warnings it has logged, acked
\* whether the store acknowledged the upsert and storeError the error the
\* store raised: they are history (sent is read to complete the upsert).
IdleCall ==
  [ pc |-> "idle", op |-> "none", event |-> None, result |-> "none",
    value |-> << >>, sent |-> << >>, warned |-> 0, acked |-> FALSE,
    storeError |-> None ]

\* a value that is absent (Python None where the value is otherwise a dict)
Absent == << >>

\* a context that is not in use
NoContext ==
  [ fully_qualified_namespace |-> None, eventhub_name |-> None,
    consumer_group |-> None, partition_id |-> None,
    last_received_event |-> None, checkpoint_store |-> None ]

\* the context while only the producer is observed
ContextIdle ==
  /\ context = NoContext
  /\ store = Absent
  /\ call = [c \in Callers |-> IdleCall]

Min(a, b) == IF a <= b THEN a ELSE b

RECURSIVE Pow2(_)
Pow2(n) == IF n = 0 THEN 1 ELSE 2 * Pow2(n - 1)

\* A task that runs no call.  args holds the arguments of a send until the
\* call enters the retry executor (nothing reads them after _wrap_eventdata);
\* conflict records that they were a bound batch and another, non-empty key.
\* The fields from nTx on are history: they record what the call has done and
\* are read by no action.  flushed says that the flush-wait of the attempt
\* returned; delivered is the outcome the callback delivered for the batch
\* the attempt submitted, while the attempt waits.  now is time.time() as
\* the call reads it, in seconds since the caller called send; it is kept
\* while the call may still read it (until the call has entered the retry
\* executor without a deadline).  entered is the clock when the call entered
\* the retry executor: history.  sleep is what is left of the backoff sleep
\* of the call, in seconds.
NoArgs == << FALSE, None, None >>

IdleTask ==
  [ pc |-> "idle", op |-> "none", args |-> NoArgs, conflict |-> FALSE,
    timeout |-> 0,
    timeout_time |-> 0, retried_times |-> 0, last_exception |-> None,
    result |-> "none",
    nTx |-> 0, nOpen |-> 0, nTeardown |-> 0, retryFails |-> 0,
    openFailed |-> FALSE, deadlineHit |-> FALSE, observed |-> None,
    budget |-> 0, flushed |-> FALSE, delivered |-> None,
    now |-> 0, entered |-> 0, sleep |-> 0 ]

Init ==
  /\ running = FALSE
  /\ closed = FALSE
  /\ handler = "none"
  /\ msg_timeout = 0
  /\ linkQueue = {}
  /\ unsent = {}
  /\ outcome = None
  /\ condition = None
  /\ lock = Free
  /\ waiters = << >>
  /\ awaiting = {}
  /\ outcomeFor = None
  /\ task = [t \in Tasks |-> IdleTask]
  /\ ContextIdle

\* ------------------------------------------------------- pure operations

\* Python truthiness of an optional string
Truthy(s) == s /= None /\ s /= ""

\* the messages of S when a new send takes over the name Cur
AgeMessages(S) == IF S = {} THEN {} ELSE {Old}

\* the submissions of S when a new submission takes over the name "this"
AgeSubmissions(S) == IF S = {} THEN {} ELSE {"earlier"}

AgeSubmission(x) == IF x = None THEN None ELSE "earlier"

\* send was given a batch bound to one partition key and a partition_key
\* argument that is non-empty and differs from it
KeyConflict(inp) == inp[1] /\ inp[3] \notin {None, ""} /\ inp[3] /= inp[2]

\* _check_closed: the error it raises, or None
CheckClosed(isClosed) == IF isClosed THEN ClientClosedError ELSE None

\* _wrap_eventdata without the comparison of the two keys
WrapEventdataUnchecked(is_batch, batch_key, partition_key) == None

\* _wrap_eventdata: the error it raises, or None
WrapEventdata(is_batch, batch_key, partition_key) ==
  IF is_batch /\ Truthy(partition_key) /\ partition_key /= batch_key
  THEN ValueError
  ELSE None

\* _set_msg_timeout without the test of the remaining time
SetMsgTimeoutNoDeadline(timeout_time, last_exception, time, current) ==
  IF timeout_time = 0
  THEN [error |-> None, msg_timeout |-> current]
  ELSE [error |-> None,
        msg_timeout |-> (timeout_time - time) * MsPerSecond]

\* _set_msg_timeout raising a timeout error whatever was seen before
SetMsgTimeoutForgetful(timeout_time, last_exception, time, current) ==
  IF timeout_time = 0
  THEN [error |-> None, msg_timeout |-> current]
  ELSE LET remaining_time == timeout_time - time
       IN IF remaining_time <= 0
          THEN [error |-> OperationTimeoutError, msg_timeout |-> current]
          ELSE [error |-> None, msg_timeout |-> remaining_time * MsPerSecond]

\* _set_msg_timeout giving each attempt the whole timeout again
SetMsgTimeoutFresh(timeout_time, last_exception, time, current) ==
  IF timeout_time = 0
  THEN [error |-> None, msg_timeout |-> current]
  ELSE LET remaining_time == timeout_time - time
       IN IF remaining_time <= 0
          THEN [error |-> IF last_exception /= None THEN last_exception
                          ELSE OperationTimeoutError,
                msg_timeout |-> current]
          ELSE [error |-> None, msg_timeout |-> timeout_time * MsPerSecond]

\* _set_msg_timeout: the error it raises (or None) and the handler's
\* _msg_timeout afterwards
SetMsgTimeout(timeout_time, last_exception, time, current) ==
  IF timeout_time = 0
  THEN [error |-> None, msg_timeout |-> current]
  ELSE LET remaining_time == timeout_time - time
       IN IF remaining_time <= 0
          THEN [error |-> IF last_exception /= None THEN last_exception
                          ELSE OperationTimeoutError,
                msg_timeout |-> current]
          ELSE [error |-> None, msg_timeout |-> remaining_time * MsPerSecond]

\* _send_event_data after the flush-wait: the condition it records and the
\* error it raises (or None)
SendResult(theOutcome, theCondition) ==
  LET cond == IF theOutcome /= "Ok" /\ theOutcome = "Timeout"
              THEN OperationTimeoutError ELSE theCondition
  IN [condition |-> cond,
      error |-> IF theOutcome /= "Ok" /\ cond /= None THEN cond ELSE None]

\* _create_handler: the _msg_timeout of a new SendClientAsync
CreateHandlerMsgTimeout == SendTimeout * MsPerSecond

\* a close that tears the link down whether or not it was closed before
MixinCloseAgain(isClosed, isRunning, theHandler) ==
  [closed |-> TRUE, running |-> FALSE,
   handler |-> IF theHandler = "open" THEN "closed" ELSE theHandler,
   teardown |-> IF theHandler = "open" THEN 1 ELSE 0]

\* ConsumerProducerMixin.close: running, closed and the handler afterwards,
\* and whether the link was torn down
MixinClose(isClosed, isRunning, theHandler) ==
  IF isClosed
  THEN [closed |-> TRUE, running |-> isRunning, handler |-> theHandler,
        teardown |-> 0]
  ELSE [closed |-> TRUE, running |-> FALSE,
        handler |-> IF theHandler = "open" THEN "closed" ELSE theHandler,
        teardown |-> IF theHandler = "open" THEN 1 ELSE 0]

\* Retry Executor, step 1: the absolute deadline (0: none)
DeadlineOf(timeout, time) == IF timeout /= 0 THEN time + timeout ELSE 0

\* Retry Executor, step 2a: the deadline has passed
DeadlinePassed(timeout_time, time) == timeout_time /= 0 /\ time >= timeout_time

\* a classification that retries every error
ErrorClassAllRetryable(e) == {"retryable"}

\* Retry Executor, steps 2d and 2e: how an error may be classified
ErrorClass(e) ==
  CASE e \in {AuthenticationError, EventDataSendError} -> {"fatal"}
    [] e = ConnectionLostError -> {"retryable"}
    [] OTHER -> {"fatal", "retryable"}

\* Retry Executor, step 2e: the backoff interval after retried_times retries
Backoff(retried_times) == Min(BackoffBase * Pow2(retried_times), BackoffCap)

\* the call of record r ends with res: a return or the error raised
Finish(r, res) == [r EXCEPT !.pc = "done", !.result = res]

\* Retry Executor, steps 2d and 2e, on an attempt that failed with e
HandleFailure(r, e, cls) ==
  IF cls = "fatal"
  THEN Finish([r EXCEPT !.last_exception = e], e)
  ELSE [r EXCEPT !.last_exception = e, !.pc = "backoff",
                 !.sleep = Backoff(r.retried_times)]

\* a lock that is released only when the call returns normally
ReleaseOnReturnOnly(t, r) ==
  IF r.pc = "done" /\ r.op /= "open" /\ r.result = Returned THEN Free ELSE lock

\* async with self._lock: the lock is released when the call ends
Release(t, r) == IF r.pc = "done" /\ r.op /= "open" THEN Free ELSE lock

\* the call of t is suspended: at the lock while another call holds it or
\* arrived at it earlier, at the opening of the link, at the flush-wait or in
\* a backoff
Suspended(t) ==
  \/ (task[t].pc = "lock" /\ (lock /= Free \/ Head(waiters) /= t))
  \/ task[t].pc \in {"opening", "waiting", "backoff"}

\* the call r may still read time.time(): a send that has not entered the
\* retry executor, or that has a deadline
Clocked(r) ==
  /\ r.op = "send"
  /\ r.pc \in {"lock", "locked"} \/ r.timeout_time /= 0

\* the record of r without the clock the call reads no more
Unclocked(r) == IF Clocked(r) THEN r ELSE [r EXCEPT !.now = 0, !.entered = 0]

\* the instant at which the clock of r stops
LastInstant(r) == IF r.pc \in {"lock", "locked"} THEN MaxWait ELSE MaxTime

\* d seconds pass: the clock of every call that may still read it advances
\* and every backoff sleep has d seconds less to go
Elapse(d) ==
  [t \in Tasks |->
     [task[t] EXCEPT
        !.now = IF Clocked(task[t])
                THEN Min(@ + d, LastInstant(task[t])) ELSE @,
        !.sleep = IF @ > d THEN @ - d ELSE 0]]

\* -------------------------------------------------------------- actions

\* a caller starts send(event_data, partition_key=..., timeout=...)
SendCall(t) ==
  /\ task[t].pc = "idle"
  /\ task' = [task EXCEPT ![t] = [IdleTask EXCEPT !.pc = "lock", !.op = "send"]]
  /\ waiters' = Append(waiters, t)
  /\ UNCHANGED << producer, lock >>

\* a caller starts close()
CloseCall(t) ==
  /\ task[t].pc = "idle"
  /\ task' = [task EXCEPT ![t] = [IdleTask EXCEPT !.pc = "lock", !.op = "close"]]
  /\ waiters' = Append(waiters, t)
  /\ UNCHANGED << producer, lock >>

\* a caller starts _open_with_retry(): _do_retryable_operation(self._open),
\* without the lock and without a timeout
OpenCall(t) ==
  /\ task[t].pc = "idle"
  /\ task' = [task EXCEPT ![t] = [IdleTask EXCEPT !.pc = "attempt", !.op = "open"]]
  /\ UNCHANGED << producer, lock, waiters >>

\* a lock that is taken without waiting for its holder
AcquireNoWait(t) ==
  /\ task[t].pc = "lock"
  /\ lock' = t
  /\ waiters' = SelectSeq(waiters, LAMBDA u : u /= t)
  /\ task' = [task EXCEPT ![t].pc = "locked"]
  /\ UNCHANGED producer

\* async with self._lock, in send and in close: the lock is free and no
\* call arrived at it before this one
Acquire(t) ==
  /\ task[t].pc = "lock"
  /\ lock = Free
  /\ Head(waiters) = t
  /\ lock' = t
  /\ waiters' = Tail(waiters)
  /\ task' = [task EXCEPT ![t].pc = "locked"]
  /\ UNCHANGED producer

\* send without the call of _check_closed
SendBodyUnchecked(t, inp, timeout) ==
  LET r == [task[t] EXCEPT !.args = inp, !.timeout = timeout,
                           !.conflict = KeyConflict(inp)]
      wrapErr == WrapEventdata(inp[1], inp[2], inp[3])
      end == IF wrapErr /= None THEN Finish(r, wrapErr)
             ELSE [r EXCEPT !.pc = "attempt", !.args = NoArgs,
                            !.timeout_time = DeadlineOf(timeout, r.now),
                            !.entered = r.now]
      sent == end.pc = "attempt"
  IN /\ task' = [task EXCEPT ![t] = Unclocked(end)]
     /\ unsent' = IF sent THEN {Cur} ELSE unsent
     /\ linkQueue' = IF sent THEN AgeMessages(linkQueue) ELSE linkQueue
     /\ awaiting' = IF sent THEN AgeSubmissions(awaiting) ELSE awaiting
     /\ outcomeFor' = IF sent THEN AgeSubmission(outcomeFor) ELSE outcomeFor
     /\ lock' = Release(t, end)

\* send, under the lock, with arguments inp and timeout: _check_closed,
\* _wrap_eventdata, the assignment of _unsent_events, and the entry of
\* _do_retryable_operation (step 1)
SendBodyWith(t, inp, timeout) ==
  LET r == [task[t] EXCEPT !.args = inp, !.timeout = timeout,
                           !.conflict = KeyConflict(inp)]
      closedErr == CheckClosed(closed)
      wrapErr == WrapEventdata(inp[1], inp[2], inp[3])
      end == IF closedErr /= None THEN Finish(r, closedErr)
             ELSE IF wrapErr /= None THEN Finish(r, wrapErr)
             ELSE [r EXCEPT !.pc = "attempt", !.args = NoArgs,
                            !.timeout_time = DeadlineOf(timeout, r.now),
                            !.entered = r.now]
      sent == end.pc = "attempt"
  IN /\ task' = [task EXCEPT ![t] = Unclocked(end)]
     /\ unsent' = IF sent THEN {Cur} ELSE unsent
     /\ linkQueue' = IF sent THEN AgeMessages(linkQueue) ELSE linkQueue
     /\ awaiting' = IF sent THEN AgeSubmissions(awaiting) ELSE awaiting
     /\ outcomeFor' = IF sent THEN AgeSubmission(outcomeFor) ELSE outcomeFor
     /\ lock' = Release(t, end)

SendBody(t) ==
  /\ task[t].pc = "locked"
  /\ task[t].op = "send"
  /\ \E inp \in SendInputs, timeout \in Timeouts :
       /\ SendBodyWith(t, inp, timeout)
  /\ UNCHANGED << running, closed, handler, msg_timeout, outcome, condition,
                  waiters >>

\* close, under the lock
CloseBody(t) ==
  LET r == task[t]
      c == MixinClose(closed, running, handler)
      end == Finish([r EXCEPT !.nTeardown = c.teardown], Returned)
  IN /\ r.pc = "locked"
     /\ r.op = "close"
     /\ closed' = c.closed
     /\ running' = c.running
     /\ handler' = c.handler
     /\ task' = [task EXCEPT ![t] = end]
     /\ lock' = Release(t, end)
     /\ UNCHANGED << msg_timeout, linkQueue, unsent, outcome, condition,
                     awaiting, outcomeFor, waiters >>

\* _send_event_data from _set_msg_timeout to the flush-wait, on a link whose
\* _msg_timeout is current and whose pending messages are queue
Transmit(t, r, current, queue) ==
  LET s == SetMsgTimeout(r.timeout_time, r.last_exception, r.now, current)
  IN IF s.error /= None
     THEN /\ \E cls \in ErrorClass(s.error) :
               LET end == HandleFailure([r EXCEPT !.deadlineHit = TRUE],
                                        s.error, cls)
               IN /\ task' = [task EXCEPT ![t] = end]
                  /\ lock' = Release(t, end)
          /\ msg_timeout' = current
          /\ linkQueue' = queue
          /\ awaiting' = awaiting
          /\ outcomeFor' = outcomeFor
     ELSE /\ msg_timeout' = s.msg_timeout
          /\ linkQueue' = queue \cup unsent
          /\ awaiting' = AgeSubmissions(awaiting) \cup {"this"}
          /\ outcomeFor' = AgeSubmission(outcomeFor)
          /\ task' = [task EXCEPT ![t] =
                        [r EXCEPT !.pc = "waiting", !.nTx = @ + 1,
                                  !.budget = IF r.timeout_time /= 0
                                             THEN s.msg_timeout ELSE @]]
          /\ lock' = lock

\* the call of t ends with res
End(t, r, res) ==
  LET end == Finish(r, res)
  IN /\ task' = [task EXCEPT ![t] = end]
     /\ lock' = Release(t, end)

\* the head of an attempt: the deadline test of the Retry Executor (step 2a),
\* then the operation up to its first suspension
AttemptStart(t) ==
  LET r == task[t]
  IN /\ r.pc = "attempt"
     /\ IF DeadlinePassed(r.timeout_time, r.now)
        THEN /\ End(t, [r EXCEPT !.deadlineHit = TRUE],
                    IF r.last_exception /= None THEN r.last_exception
                    ELSE OperationTimeoutError)
             /\ UNCHANGED << msg_timeout, linkQueue, awaiting, outcomeFor >>
        ELSE IF r.op = "send" /\ unsent = {}
        THEN /\ End(t, r, Returned)
             /\ UNCHANGED << msg_timeout, linkQueue, awaiting, outcomeFor >>
        ELSE IF ~running
        THEN /\ task' = [task EXCEPT ![t] =
                           [r EXCEPT !.pc = "opening", !.nOpen = @ + 1]]
             /\ UNCHANGED << lock, msg_timeout, linkQueue, awaiting, outcomeFor >>
        ELSE IF r.op = "open"
        THEN /\ End(t, r, Returned)
             /\ UNCHANGED << msg_timeout, linkQueue, awaiting, outcomeFor >>
        ELSE Transmit(t, r, msg_timeout, linkQueue)
     /\ UNCHANGED << running, closed, handler, unsent, outcome, condition,
                     waiters >>

\* _open completes: the link is constructed (_create_handler) and running
\* is set
OpenDone(t) ==
  LET r == task[t]
  IN /\ r.pc = "opening"
     /\ running' = TRUE
     /\ handler' = "open"
     /\ IF r.op = "open"
        THEN /\ End(t, r, Returned)
             /\ msg_timeout' = CreateHandlerMsgTimeout
             /\ linkQueue' = {}
             /\ UNCHANGED << awaiting, outcomeFor >>
        ELSE Transmit(t, r, CreateHandlerMsgTimeout, {})
     /\ UNCHANGED << closed, unsent, outcome, condition, waiters >>

\* _open fails: the construction of the link raises
OpenRaise(t) ==
  LET r == task[t]
  IN /\ r.pc = "opening"
     /\ \E e \in TransportErrors : \E cls \in ErrorClass(e) :
          LET end == HandleFailure(
                       IF r.op = "send"
                       THEN [r EXCEPT !.observed = e, !.openFailed = TRUE]
                       ELSE r, e, cls)
          IN /\ task' = [task EXCEPT ![t] = end]
             /\ lock' = Release(t, end)
     /\ UNCHANGED << producer, waiters >>

\* _on_outcome, called by the transport for submission s while a task drives
\* the link in its flush-wait; more earlier submissions may remain
OnOutcome(s, o, c) ==
  /\ s \in awaiting
  /\ \E t \in Tasks : task[t].pc = "waiting"
  /\ outcome' = o
  /\ condition' = c
  /\ awaiting' \in IF s = "this" THEN {awaiting \ {s}}
                   ELSE {awaiting, awaiting \ {s}}
  /\ outcomeFor' = s
  /\ task' = [t \in Tasks |->
               IF task[t].pc = "waiting" /\ s = "this"
               THEN [task[t] EXCEPT !.delivered = o] ELSE task[t]]
  /\ UNCHANGED << running, closed, handler, msg_timeout, linkQueue, unsent,
                  lock, waiters >>

\* wait_async raises
WaitRaise(t) ==
  LET r == [task[t] EXCEPT !.delivered = None]
  IN /\ r.pc = "waiting"
     /\ \E e \in TransportErrors : \E cls \in ErrorClass(e) :
          LET end == HandleFailure(
                       [r EXCEPT !.observed = e,
                                 !.retryFails = IF e = ConnectionLostError
                                                THEN @ + 1 ELSE @], e, cls)
          IN /\ task' = [task EXCEPT ![t] = end]
             /\ lock' = Release(t, end)
     /\ UNCHANGED << producer, waiters >>

\* wait_async returns: _unsent_events becomes the handler's pending messages
\* and the recorded outcome decides the attempt
WaitReturn(t) ==
  LET r == [task[t] EXCEPT !.flushed = TRUE, !.delivered = None]
      res == SendResult(outcome, condition)
  IN /\ r.pc = "waiting"
     /\ \E pending \in SUBSET linkQueue :
          /\ linkQueue' = pending
          /\ unsent' = pending
     /\ condition' = res.condition
     /\ IF res.error /= None
        THEN \E cls \in ErrorClass(res.error) :
               LET end == HandleFailure(
                            [r EXCEPT !.observed = res.error,
                                      !.retryFails =
                                         IF res.error = ConnectionLostError
                                         THEN @ + 1 ELSE @],
                            res.error, cls)
               IN /\ task' = [task EXCEPT ![t] = end]
                  /\ lock' = Release(t, end)
        ELSE End(t, r, Returned)
     /\ UNCHANGED << running, closed, handler, msg_timeout, outcome, awaiting,
                     outcomeFor, waiters >>

\* Retry Executor, step 2e and the loop bound: the backoff sleep ends, after
\* what was left of it has passed with every call in progress suspended
BackoffDone(t) ==
  LET d == task[t].sleep
      r == Elapse(d)[t]
      n == r.retried_times + 1
      end == IF n > MaxRetries
             THEN Finish([r EXCEPT !.retried_times = n, !.flushed = FALSE],
                         r.last_exception)
             ELSE [r EXCEPT !.retried_times = n, !.flushed = FALSE,
                            !.pc = "attempt"]
  IN /\ r.pc = "backoff"
     /\ d = 0 \/ \A u \in Tasks : task[u].pc = "idle" \/ Suspended(u)
     /\ task' = [Elapse(d) EXCEPT ![t] = end]
     /\ lock' = Release(t, end)
     /\ UNCHANGED << producer, waiters >>

\* time passes while every call in progress is suspended: the steps between
\* two suspensions run on the event loop without a pause
Tick ==
  /\ \A t \in Tasks : task[t].pc = "idle" \/ Suspended(t)
  /\ \E t \in Tasks :
       \/ (Clocked(task[t]) /\ task[t].now < LastInstant(task[t]))
       \/ task[t].sleep > 0
  /\ task' = Elapse(1)
  /\ UNCHANGED << producer, lock, waiters >>

\* the caller receives the result of its call
Return(t) ==
  /\ task[t].pc = "done"
  /\ task' = [task EXCEPT ![t] = IdleTask]
  /\ UNCHANGED << producer, lock, waiters >>

\* no finished call waits to be received: a result is received before
\* anything else happens
Quiet == \A t \in Tasks : task[t].pc /= "done"

Next ==
  \/ UNCHANGED ctxvars /\ \E t \in Tasks : Return(t)
  \/ UNCHANGED ctxvars /\ Quiet /\ \E t \in Tasks : SendCall(t)
  \/ UNCHANGED ctxvars /\ Quiet /\ \E t \in Owners : CloseCall(t)
  \/ UNCHANGED ctxvars /\ Quiet /\ \E t \in Owners : OpenCall(t)
  \/ UNCHANGED ctxvars /\ Quiet /\ \E t \in Tasks : Acquire(t)
  \/ UNCHANGED ctxvars /\ Quiet /\ \E t \in Tasks : SendBody(t)
  \/ UNCHANGED ctxvars /\ Quiet /\ \E t \in Tasks : CloseBody(t)
  \/ UNCHANGED ctxvars /\ Quiet /\ \E t \in Tasks : AttemptStart(t)
  \/ UNCHANGED ctxvars /\ Quiet /\ \E t \in Tasks : OpenDone(t)
  \/ UNCHANGED ctxvars /\ Quiet /\ \E t \in Tasks : OpenRaise(t)
  \/ UNCHANGED ctxvars /\ Quiet /\ \E s \in {"this", "earlier"} :
       \E oc \in Outcomes : OnOutcome(s, oc[1], oc[2])
  \/ UNCHANGED ctxvars /\ Quiet /\ \E t \in Tasks : WaitRaise(t)
  \/ UNCHANGED ctxvars /\ Quiet /\ \E t \in Tasks : WaitReturn(t)
  \/ UNCHANGED ctxvars /\ Quiet /\ \E t \in Tasks : BackoffDone(t)
  \/ UNCHANGED ctxvars /\ Quiet /\ Tick

Spec == Init /\ [][Next]_allvars

\* a step of the call of task t other than its start: the event loop runs
\* the task, the lock is handed to it, or a transport wait of it ends
TaskStep(t) ==
  /\ UNCHANGED ctxvars
  /\ \/ Return(t)
     \/ Quiet /\ ( \/ Acquire(t) \/ SendBody(t) \/ CloseBody(t)
                  \/ AttemptStart(t) \/ OpenDone(t) \/ OpenRaise(t)
                  \/ WaitRaise(t) \/ WaitReturn(t) \/ BackoffDone(t) )

\* the sends and closes on the producer, with the callbacks of the
\* submission in progress (no _open_with_retry, no late callbacks)
FairNext ==
  \/ UNCHANGED ctxvars /\ \E t \in Tasks : Return(t)
  \/ UNCHANGED ctxvars /\ Quiet /\ \E t \in Tasks : SendCall(t)
  \/ UNCHANGED ctxvars /\ Quiet /\ \E t \in Owners : CloseCall(t)
  \/ UNCHANGED ctxvars /\ Quiet /\ \E t \in Tasks : Acquire(t)
  \/ UNCHANGED ctxvars /\ Quiet /\ \E t \in Tasks : SendBody(t)
  \/ UNCHANGED ctxvars /\ Quiet /\ \E t \in Tasks : CloseBody(t)
  \/ UNCHANGED ctxvars /\ Quiet /\ \E t \in Tasks : AttemptStart(t)
  \/ UNCHANGED ctxvars /\ Quiet /\ \E t \in Tasks : OpenDone(t)
  \/ UNCHANGED ctxvars /\ Quiet /\ \E t \in Tasks : OpenRaise(t)
  \/ UNCHANGED ctxvars /\ Quiet /\ \E oc \in Outcomes :
       OnOutcome("this", oc[1], oc[2])
  \/ UNCHANGED ctxvars /\ Quiet /\ \E t \in Tasks : WaitRaise(t)
  \/ UNCHANGED ctxvars /\ Quiet /\ \E t \in Tasks : WaitReturn(t)
  \/ UNCHANGED ctxvars /\ Quiet /\ \E t \in Tasks : BackoffDone(t)
  \/ UNCHANGED ctxvars /\ Quiet /\ Tick

\* the same under a fair event loop, a first-come lock and transport waits
\* that end: a task that can take a step again and again takes one
FairSpec ==
  Init /\ [][FairNext]_allvars /\ \A t \in Tasks : SF_allvars(TaskStep(t))

\* ------------------------------------------------------- PartitionContext

\* the events handed to the context: their names
Events == {"e1", "e2"}
\* event.offset
EventOffset(e) == IF e = "e1" THEN "100" ELSE "200"
\* event.sequence_number
EventSequenceNumber(e) == IF e = "e1" THEN 42 ELSE 43
\* a store whose truth value is false: its class defines __bool__ or __len__
FalsyStore == "falsyStore"
\* the checkpoint store given at construction, if any
Stores == {None, "store", FalsyStore}
\* errors the upsert of the store can raise
StoreErrors == {"StoreError", "StoreUnavailable"}
\* the identities a context is constructed with
Namespaces == {"ns1", "ns2"}
EventhubNames == {"hub1"}
ConsumerGroups == {"$Default"}
PartitionIds == {"0", "1"}

\* PartitionContext.__init__
NewContext(ns, hub, cg, pid, cs) ==
  [ fully_qualified_namespace |-> ns, eventhub_name |-> hub,
    consumer_group |-> cg, partition_id |-> pid,
    last_received_event |-> None, checkpoint_store |-> cs ]

\* the producer while only the context is observed: as constructed
ProducerIdle ==
  /\ running = FALSE
  /\ closed = FALSE
  /\ handler = "none"
  /\ msg_timeout = 0
  /\ linkQueue = {}
  /\ unsent = {}
  /\ outcome = None
  /\ condition = None
  /\ lock = Free
  /\ waiters = << >>
  /\ awaiting = {}
  /\ outcomeFor = None
  /\ task = [t \in Tasks |-> IdleTask]

InitContext ==
  /\ ProducerIdle
  /\ \E ns \in Namespaces, hub \in EventhubNames, cg \in ConsumerGroups,
        pid \in PartitionIds, cs \in Stores :
       context = NewContext(ns, hub, cg, pid, cs)
  /\ store = Absent
  /\ call = [c \in Callers |-> IdleCall]

\* update_checkpoint as if a store were always configured
HasStoreAlways(ctx) == TRUE

\* bool(cs): the truth value of a store reference
StoreTruth(cs) == cs /= None /\ cs /= FalsyStore

\* update_checkpoint: if self._checkpoint_store
HasStore(ctx) == StoreTruth(ctx.checkpoint_store)

\* a checkpoint that carries the offset of the event last received instead
\* of that of the event given
CheckpointOfLastReceived(ctx, e) ==
  [ fully_qualified_namespace |-> ctx.fully_qualified_namespace,
    eventhub_name |-> ctx.eventhub_name,
    consumer_group |-> ctx.consumer_group,
    partition_id |-> ctx.partition_id,
    offset |-> IF ctx.last_received_event /= None
               THEN EventOffset(ctx.last_received_event) ELSE EventOffset(e),
    sequence_number |-> EventSequenceNumber(e) ]

\* update_checkpoint: the checkpoint dict built for event e
CheckpointOf(ctx, e) ==
  [ fully_qualified_namespace |-> ctx.fully_qualified_namespace,
    eventhub_name |-> ctx.eventhub_name,
    consumer_group |-> ctx.consumer_group,
    partition_id |-> ctx.partition_id,
    offset |-> EventOffset(e),
    sequence_number |-> EventSequenceNumber(e) ]

\* update_checkpoint when the awaited upsert raises e: nothing catches it
UpsertRaised(e) == e

\* an update_checkpoint that remembers the event it was given
ContextAfterUpdateRemembering(ctx, e) == [ctx EXCEPT !.last_received_event = e]

\* update_checkpoint assigns no field of the context
ContextAfterUpdate(ctx, e) == ctx

\* get_last_enqueued_event_properties: the properties derived from event e
GetLastEnqueuedEventProperties(e) ==
  [ sequence_number |-> EventSequenceNumber(e), offset |-> EventOffset(e),
    enqueued_time |-> "enqueued:" \o e, retrieval_time |-> "retrieved:" \o e ]

\* last_enqueued_event_properties
LastEnqueuedEventProperties(ctx) ==
  IF ctx.last_received_event /= None
  THEN << GetLastEnqueuedEventProperties(ctx.last_received_event) >>
  ELSE Absent

\* a caller starts update_checkpoint(e): when the store reference is false
\* it logs the warning and returns; otherwise it builds the checkpoint and
\* awaits the upsert
UpdateCheckpoint(c, e) ==
  /\ call[c].pc = "idle"
  /\ context' = ContextAfterUpdate(context, e)
  /\ IF HasStore(context)
     THEN call' = [call EXCEPT ![c] =
                     [IdleCall EXCEPT !.pc = "upsert", !.op = "update",
                                      !.event = e,
                                      !.sent = << CheckpointOf(context, e) >>]]
     ELSE call' = [call EXCEPT ![c] =
                     [IdleCall EXCEPT !.pc = "done", !.op = "update",
                                      !.event = e, !.warned = 1,
                                      !.result = Returned]]
  /\ UNCHANGED store

\* the store acknowledges the upsert: update_checkpoint returns
UpsertDone(c) ==
  /\ call[c].pc = "upsert"
  /\ store' = << call[c].sent[1] >>
  /\ call' = [call EXCEPT ![c].pc = "done", ![c].result = Returned,
                          ![c].acked = TRUE]
  /\ UNCHANGED context

\* the upsert of the store raises, having written the record or not
UpsertRaise(c, e) ==
  /\ call[c].pc = "upsert"
  /\ store' \in {store, << call[c].sent[1] >>}
  /\ call' = [call EXCEPT ![c].pc = "done", ![c].result = UpsertRaised(e),
                          ![c].storeError = e]
  /\ UNCHANGED context

\* a caller reads last_enqueued_event_properties
ReadProperties(c) ==
  /\ call[c].pc = "idle"
  /\ call' = [call EXCEPT ![c] =
                [IdleCall EXCEPT !.pc = "done", !.op = "read",
                                 !.result = Returned,
                                 !.value = LastEnqueuedEventProperties(context)]]
  /\ UNCHANGED << context, store >>

\* the receive path hands a received event to the context
Receive(e) ==
  /\ context' = [context EXCEPT !.last_received_event = e]
  /\ UNCHANGED << store, call >>

\* the caller receives the result of its call
ReturnCall(c) ==
  /\ call[c].pc = "done"
  /\ call' = [call EXCEPT ![c] = IdleCall]
  /\ UNCHANGED << context, store >>

NextContext ==
  \/ UNCHANGED vars /\ \E c \in Callers : \E e \in Events : UpdateCheckpoint(c, e)
  \/ UNCHANGED vars /\ \E c \in Callers : UpsertDone(c)
  \/ UNCHANGED vars /\ \E c \in Callers : \E e \in StoreErrors : UpsertRaise(c, e)
  \/ UNCHANGED vars /\ \E c \in Callers : ReadProperties(c)
  \/ UNCHANGED vars /\ \E e \in Events : Receive(e)
  \/ UNCHANGED vars /\ \E c \in Callers : ReturnCall(c)

SpecContext == InitContext /\ [][NextContext]_allvars

\* ---------------------------------------------------------------- claims

FatalErrors == {AuthenticationError, EventDataSendError}

\* the transmission window of the send of t is open: it has queued on the
\* link and its result is not yet determined
InWindow(t) ==
  /\ task[t].op = "send"
  /\ task[t].nTx >= 1
  /\ task[t].pc \notin {"idle", "done"}

\* C1: the transmission windows of two sends on the producer never overlap:
\* while one send is between its first queue_message and its result, no other
\* send has queued anything.
C1_WindowsDisjoint ==
  \A t \in Tasks : \A u \in Tasks \ {t} : InWindow(t) => ~InWindow(u)

\* a send is in its window while another send waits for the lock
C1_Witness ==
  \E t \in Tasks : \E u \in Tasks \ {t} :
    InWindow(t) /\ task[u].op = "send" /\ task[u].pc = "lock"

\* C2: send returns normally only when the transport reported the batch it
\* submitted acknowledged: outcome Ok, delivered for this submission, and
\* none of its messages still pending.
C2_ReturnsOnlyAcknowledged ==
  \A t \in Tasks :
    (task[t].op = "send" /\ task[t].pc = "done" /\ task[t].result = Returned)
      => (outcome = "Ok" /\ outcomeFor = "this" /\ Cur \notin unsent)

\* C3: when every transmission of a send failed with the retryable
\* ConnectionLostError (raised by the flush-wait or delivered as condition), no
\* link construction failed and the deadline did not pass, the send made
\* exactly MaxRetries + 1 transmissions and raised.
C3_RetryBound ==
  \A t \in Tasks :
    ( /\ task[t].op = "send"
      /\ task[t].pc = "done"
      /\ task[t].nTx >= 1
      /\ task[t].retryFails = task[t].nTx
      /\ ~task[t].openFailed
      /\ ~task[t].deadlineHit )
      => (task[t].nTx = MaxRetries + 1 /\ task[t].result /= Returned)

\* what a send that ends in its validation leaves alone
ValidationFrame ==
  UNCHANGED << running, closed, handler, msg_timeout, linkQueue, unsent,
               outcome, condition, awaiting, outcomeFor >>

\* C4, as claimed: a send given a batch bound to key A and a partition_key B,
\* non-empty and different from A, fails with the validation error, before
\* any transport interaction, without a retry, and leaves the unsent list,
\* the outcome and the condition unchanged.
C4_AsClaimed ==
  [][ \A t \in Tasks :
        (task[t].pc = "locked" /\ task'[t].conflict)
          => ( /\ task'[t].pc = "done"
               /\ task'[t].result = ValueError
               /\ task'[t].nOpen = 0 /\ task'[t].nTx = 0
               /\ task'[t].retried_times = 0
               /\ ValidationFrame ) ]_vars

\* C4, amended: the same, with the validation error on a producer that is not
\* closed and the closed-producer error on one that is.
C4_KeyConflictRejected ==
  [][ \A t \in Tasks :
        (task[t].pc = "locked" /\ task'[t].conflict)
          => ( /\ task'[t].pc = "done"
               /\ task'[t].result = IF closed THEN ClientClosedError
                                    ELSE ValueError
               /\ task'[t].nOpen = 0 /\ task'[t].nTx = 0
               /\ task'[t].retried_times = 0
               /\ ValidationFrame ) ]_vars

\* a send with conflicting keys has failed with the validation error
C4_Witness ==
  \E t \in Tasks :
    task[t].conflict /\ task[t].pc = "done" /\ task[t].result = ValueError

\* C5: once the deadline of a send has passed, the send opens no link and
\* queues nothing, and an attempt that starts then ends the call with an
\* error.
C5_NoTransportAfterDeadline ==
  [][ \A t \in Tasks :
        (task[t].timeout_time /= 0 /\ task[t].now >= task[t].timeout_time)
          => ( /\ task'[t].nOpen <= task[t].nOpen
               /\ task'[t].nTx <= task[t].nTx
               /\ (task[t].pc = "attempt" /\ task'[t] /= task[t])
                    => ( /\ task'[t].pc = "done"
                         /\ task'[t].result \notin {Returned, "none"} ) ) ]_vars

\* a retry attempt found the deadline passed and the call has failed
C5_Witness ==
  \E t \in Tasks :
    /\ task[t].pc = "done"
    /\ task[t].deadlineHit
    /\ task[t].retried_times >= 1
    /\ task[t].now >= task[t].timeout_time

\* C6: a send that ends because its deadline has passed raises the last error
\* an attempt of this call failed with, and OperationTimeoutError when no
\* attempt of it has failed.
C6_DeadlineError ==
  \A t \in Tasks :
    (task[t].pc = "done" /\ task[t].deadlineHit)
      => task[t].result = IF task[t].observed /= None THEN task[t].observed
                          ELSE OperationTimeoutError

\* the deadline passed after an attempt had failed with another error
C6_Witness ==
  \E t \in Tasks :
    /\ task[t].pc = "done"
    /\ task[t].deadlineHit
    /\ task[t].observed = ConnectionLostError

\* C7 as the claim states it, with the time elapsed counted from the call of
\* send: the _msg_timeout an attempt sets for a send with a timeout is at
\* most the timeout less the time elapsed since the caller called send.
C7_AsClaimed ==
  [][ \A t \in Tasks :
        (task[t].timeout_time /= 0 /\ task'[t].nTx = task[t].nTx + 1)
          => msg_timeout' <= (task[t].timeout - task[t].now) * MsPerSecond ]_vars

\* C7: the deadline of a send is fixed once, when the call enters the retry
\* executor after it has acquired the lock; the _msg_timeout an attempt sets
\* is deadline - now (in ms), is at most the timeout less the time elapsed
\* since the call entered the retry executor, is less than what the attempt
\* before it set, and so is never the whole timeout again after a retry.
C7_BudgetFromOneDeadline ==
  [][ \A t \in Tasks :
        /\ (task[t].pc \notin {"idle", "locked"} /\ task'[t].pc /= "idle")
             => task'[t].timeout_time = task[t].timeout_time
        /\ (task[t].timeout_time /= 0 /\ task'[t].nTx = task[t].nTx + 1)
             => ( /\ msg_timeout' = (task[t].timeout_time - task[t].now) * MsPerSecond
                  /\ msg_timeout' <=
                       (task[t].timeout - (task[t].now - task[t].entered)) * MsPerSecond
                  /\ task[t].budget /= 0 => msg_timeout' < task[t].budget
                  /\ task[t].retried_times > 0
                       => msg_timeout' < task[t].timeout * MsPerSecond ) ]_vars

\* a send that waited for the lock has made a second attempt, which set a
\* smaller _msg_timeout than the first; the first had set more than the
\* timeout less the time since the call of send
C7_Witness ==
  \E t \in Tasks :
    /\ task[t].timeout_time /= 0
    /\ task[t].entered > 0
    /\ task[t].nTx = 2
    /\ task[t].pc = "waiting"
    /\ msg_timeout = task[t].budget
    /\ msg_timeout < task[t].timeout * MsPerSecond

\* C8: an attempt that failed with a fatal error ended the send with that
\* error at once: no backoff and no further attempt follow.
C8_FatalStops ==
  \A t \in Tasks :
    (task[t].op = "send" /\ task[t].observed \in FatalErrors)
      => (task[t].pc = "done" /\ task[t].result = task[t].observed)

\* a fatal error ended a send that had retries and time left
C8_Witness ==
  \E t \in Tasks :
    /\ task[t].pc = "done"
    /\ task[t].observed \in FatalErrors
    /\ task[t].retried_times < MaxRetries
    /\ task[t].timeout_time /= 0
    /\ task[t].now < task[t].timeout_time

C10_ClosedRejectsSend ==
  [][ /\ closed => closed'
      /\ \A t \in Tasks :
           ( /\ task[t].op = "send"
             /\ task[t].pc = "locked"
             /\ task'[t].pc /= "locked"
             /\ closed )
             => ( /\ task'[t].pc = "done"
                  /\ task'[t].result \notin {Returned, "none"}
                  /\ task'[t].nOpen = 0 /\ task'[t].nTx = 0
                  /\ ValidationFrame ) ]_vars

\* a send on a closed producer has been rejected
C10_Witness ==
  \E t \in Tasks :
    /\ task[t].op = "send"
    /\ task[t].pc = "done"
    /\ task[t].result = ClientClosedError
    /\ handler = "closed"
\* C11: update_checkpoint on a context without a checkpoint store returns
\* without error, hands nothing to the store and logs one warning, whatever
\* the event.
C11_NoStoreNoWrite ==
  context.checkpoint_store = None
    => /\ store = Absent
       /\ \A c \in Callers :
            call[c].op = "update"
              => ( /\ call[c].pc = "done"
                   /\ call[c].result = Returned
                   /\ call[c].sent = << >>
                   /\ call[c].warned = 1 )

\* update_checkpoint has returned on a context without a store
C11_Witness ==
  /\ context.checkpoint_store = None
  /\ \E c \in Callers : call[c].op = "update" /\ call[c].pc = "done"
                        /\ call[c].event = "e2"

C13_StoreErrorPropagates ==
  \A c \in Callers :
    (call[c].op = "update" /\ call[c].pc = "done")
      => ( /\ call[c].storeError /= None => call[c].result = call[c].storeError
           /\ call[c].result = Returned
                => (call[c].acked \/ context.checkpoint_store = None) )

\* C20: no step of update_checkpoint and no read of
\* last_enqueued_event_properties changes a field of the context (identity,
\* last received event, store reference), and a read gives no properties
\* exactly when no event has been received.
C20_ContextUnchangedByCalls ==
  [][ \A c \in Callers :
        /\ call'[c] /= call[c] => context' = context
        /\ (call[c].pc = "idle" /\ call'[c].op = "read")
             => (call'[c].value = Absent
                   <=> context.last_received_event = None) ]_allvars

\* after an event was received, one caller has read the properties while the
\* update_checkpoint of another has failed in the store
C20_Witness ==
  \E c \in Callers : \E d \in Callers \ {c} :
    /\ call[c].op = "read"
    /\ call[c].value /= Absent
    /\ call[d].op = "update"
    /\ call[d].storeError /= None
\* C14: while a send that was given no timeout waits for its batch, the
\* per-message timeout in force on the link is that of the configured
\* send_timeout, whatever timeout an earlier send was given.
C14_DefaultTimeoutGoverns ==
  \A t \in Tasks :
    (task[t].op = "send" /\ task[t].timeout = 0 /\ task[t].pc = "waiting")
      => msg_timeout = SendTimeout * MsPerSecond
\* the attempt of t that ends in this step fails
AttemptFails(t) ==
  \/ task'[t].pc = "backoff"
  \/ task'[t].pc = "done" /\ task'[t].result /= Returned

\* C15: an attempt whose flush-wait returns with a recorded outcome other
\* than Ok fails: with OperationTimeoutError for the outcome Timeout, with the
\* recorded condition for another outcome that has one, and with some error
\* when no condition is recorded.
C15_NonOkOutcomeFails ==
  [][ \A t \in Tasks :
        ( /\ task[t].pc = "waiting"
          /\ task'[t].flushed
          /\ outcome \notin {"Ok", None} )
          => ( /\ AttemptFails(t)
               /\ outcome = "Timeout"
                    => task'[t].last_exception = OperationTimeoutError
               /\ (outcome /= "Timeout" /\ condition /= None)
                    => task'[t].last_exception = condition ) ]_vars
\* the transport has acknowledged the batch of the send in progress
Acknowledged == outcome = "Ok" /\ outcomeFor = "this"

\* C16: within a send, the message leaves the unsent list only when it is
\* acknowledged: after an attempt that failed when its flush-wait had
\* returned the unsent list still holds it, and no attempt ends the send
\* normally without transmitting while it is unacknowledged.
C16_UnackedStaysUnsent ==
  \A t \in Tasks :
    /\ ( /\ task[t].op = "send"
         /\ task[t].pc = "backoff"
         /\ task[t].flushed
         /\ task[t].last_exception = ConnectionLostError )
         => (Cur \in unsent \/ Acknowledged)
    /\ ( /\ task[t].op = "send"
         /\ task[t].pc = "done"
         /\ task[t].result = Returned
         /\ ~task[t].flushed )
         => Acknowledged

\* C17: when the callback for the batch an attempt submitted has been
\* delivered, the outcome the attempt reads after its flush-wait is the one
\* that callback delivered, not one recorded for an earlier submission.
C17_OutcomeOfThisSubmission ==
  [][ \A t \in Tasks :
        ( /\ task[t].pc = "waiting"
          /\ task'[t].flushed
          /\ task[t].delivered /= None )
          => outcome = task[t].delivered ]_vars

\* C18: every step that creates, opens or closes the link or assigns the
\* unsent list is taken by the task that holds the lock.
C18_MutationUnderLock ==
  [][ (handler' /= handler \/ running' /= running \/ unsent' /= unsent)
        => (lock /= Free /\ task'[lock] /= task[lock]) ]_vars
\* a task holds the lock only inside the body of its send or close
LockHeldInBody ==
  \A t \in Tasks :
    lock = t => ( /\ task[t].op \in {"send", "close"}
                  /\ task[t].pc \in {"locked", "attempt", "opening",
                                     "waiting", "backoff"} )

\* C19: a send or close holds the lock only until it ends, however it ends;
\* and, under a fair event loop with transport waits that end, every send
\* or close waiting for the lock returns or raises in the end (which it can
\* only do after it has acquired the lock).
C19_LockReleasedAndProgress ==
  /\ []LockHeldInBody
  /\ \A t \in Tasks : (task[t].pc = "lock") ~> (task[t].pc = "done")

\* a send has ended with an error after retries and the lock is free again
\* while another call waits for it
C19_Witness ==
  \E t \in Tasks : \E u \in Tasks \ {t} :
    /\ task[t].op = "send"
    /\ task[t].pc = "done"
    /\ task[t].result = ConnectionLostError
    /\ task[t].retried_times > MaxRetries
    /\ lock = Free
    /\ task[u].pc = "lock"
====
